---- MODULE Spec2Model ----
(***************************************************************************)
(* Model of src/extract_docs.py: the line-by-line state machine of        *)
(* parse_ts_file, the renderer generate_markdown, and the entry point.     *)
(*                                                                         *)
(* Text is modelled character by character: a Python str is a sequence of  *)
(* one-character strings, so that strip, rstrip, split, startswith and     *)
(* join are computed as Python computes them.  The two box-drawing         *)
(* characters the renderer looks for are the atoms BoxCorner and BoxBar.   *)
(* The backtick is the atom BT.  A Python dict is a function whose DOMAIN  *)
(* is the set of keys present; the dict objects live in heap, addressed by *)
(* reference, so that two names for one object are two names for one       *)
(* entry of heap.                                                          *)
(***************************************************************************)
EXTENDS Integers, Sequences, FiniteSets, TLC

(* ------------------------------------------------------------------ *)
(* Bounds of the model (sizes of the inputs explored)                  *)
(* ------------------------------------------------------------------ *)

\* inputs of the class "nest" open at most this many sections
MaxSections == 2
\* inputs of the class "nest" open at most this many subsections
MaxSubsections == 2
\* inputs of the classes "prose", "content" and "code" hold one section and open
\* at most this many subsections
FieldSubsections == 1
\* an input holds at most this many lines that are appended to a list: whole to
\* the capture buffer of a multi-line field, or as an item to notes or decisions
MaxAppended == 2

(* ------------------------------------------------------------------ *)
(* Characters                                                          *)
(* ------------------------------------------------------------------ *)

NL == "\n"
BoxCorner == "U+250C"
BoxBar == "U+2502"
\* the backtick, the apostrophe and the double quote
BT == "BACKTICK"
SQ == "'"
DQ == "\""
Whitespace == {" ", "\t", NL}

(* ------------------------------------------------------------------ *)
(* Python str operations                                               *)
(* ------------------------------------------------------------------ *)

\* s[a:b] with 1-based inclusive bounds
Slice(s, a, b) == SubSeq(s, a, b)

\* s.startswith(p)
StartsWith(s, p) == Len(p) <= Len(s) /\ SubSeq(s, 1, Len(p)) = p

\* s.endswith(p)
EndsWith(s, p) == Len(p) <= Len(s) /\ SubSeq(s, Len(s) - Len(p) + 1, Len(s)) = p

\* number of leading characters of s that are in set cs
LeadCount(s, cs) ==
    IF \A k \in 1..Len(s) : s[k] \in cs THEN Len(s)
    ELSE (CHOOSE k \in 1..Len(s) : s[k] \notin cs /\ \A j \in 1..(k-1) : s[j] \in cs) - 1

\* number of trailing characters of s that are in set cs
TrailCount(s, cs) ==
    IF \A k \in 1..Len(s) : s[k] \in cs THEN Len(s)
    ELSE Len(s) - (CHOOSE k \in 1..Len(s) : s[k] \notin cs /\ \A j \in (k+1)..Len(s) : s[j] \in cs)

\* s.lstrip(cs), s.rstrip(cs), s.strip(cs) for a set of characters cs
LStripSet(s, cs) == SubSeq(s, LeadCount(s, cs) + 1, Len(s))
RStripSet(s, cs) == SubSeq(s, 1, Len(s) - TrailCount(s, cs))
StripSet(s, cs) == RStripSet(LStripSet(s, cs), cs)

\* s.strip(), s.rstrip(): whitespace
Strip(s) == StripSet(s, Whitespace)
RStrip(s) == RStripSet(s, Whitespace)

\* the 1-based positions at which sub occurs in s
Occurrences(s, sub) ==
    {k \in 1..(Len(s) - Len(sub) + 1) : SubSeq(s, k, k + Len(sub) - 1) = sub}

\* sub in s
Contains(s, sub) == Occurrences(s, sub) # {}

Min(S) == CHOOSE x \in S : \A y \in S : x <= y
Max(S) == CHOOSE x \in S : \A y \in S : x >= y

\* s.split(sep, 1)[1]: the text after the first occurrence of sep
\* (used only where the code has tested that sep occurs)
SplitAfter(s, sep) == SubSeq(s, Min(Occurrences(s, sep)) + Len(sep), Len(s))

\* s.rsplit(sep, 1)[0]: the text before the last occurrence of sep, s when there is none
RSplitBefore(s, sep) ==
    IF Occurrences(s, sep) = {} THEN s ELSE SubSeq(s, 1, Max(Occurrences(s, sep)) - 1)

\* sep.join(parts) for a one-character separator
RECURSIVE Join(_, _)
Join(parts, sep) ==
    IF parts = <<>> THEN <<>>
    ELSE IF Len(parts) = 1 THEN parts[1]
    ELSE parts[1] \o <<sep>> \o Join(Tail(parts), sep)

\* s.split(sep) for a one-character separator
RECURSIVE Split(_, _)
Split(s, sep) ==
    IF sep \notin {s[k] : k \in 1..Len(s)} THEN <<s>>
    ELSE LET p == Min({k \in 1..Len(s) : s[k] = sep})
         IN <<SubSeq(s, 1, p - 1)>> \o Split(SubSeq(s, p + 1, Len(s)), sep)

(* ------------------------------------------------------------------ *)
(* Python dict operations (a dict is a function on its keys)           *)
(* ------------------------------------------------------------------ *)

\* {}
EmptyDict == [k \in {} |-> <<>>]

\* d[k] = v
DictSet(d, k, v) == [x \in (DOMAIN d) \cup {k} |-> IF x = k THEN v ELSE d[x]]

\* d.get(k, default)
DictGet(d, k, default) == IF k \in DOMAIN d THEN d[k] ELSE default

\* the value None of current_section / current_subsection
None == <<"None">>

(* ------------------------------------------------------------------ *)
(* The markers parse_ts_file scans for                                 *)
(* ------------------------------------------------------------------ *)

K_export == <<"e", "x", "p", "o", "r", "t", " ", "c", "o", "n", "s", "t", " ", "s", "p", "e", "c", "S", "e", "c", "t", "i", "o", "n", "s">>
K_id == <<"i", "d", ":">>
K_title == <<"t", "i", "t", "l", "e", ":">>
K_icon == <<"i", "c", "o", "n", ":">>
K_subsections == <<"s", "u", "b", "s", "e", "c", "t", "i", "o", "n", "s", ":", " ", "[">>
K_content == <<"c", "o", "n", "t", "e", "n", "t", ":", " ", BT>>
K_code == <<"c", "o", "d", "e", ":", " ", BT>>
K_notes == <<"n", "o", "t", "e", "s", ":", " ", "[">>
K_decisions == <<"d", "e", "c", "i", "s", "i", "o", "n", "s", ":", " ", "[">>
BackTick == <<BT>>
BackTickComma == <<BT, ",">>
Colon == <<":">>
Quote1 == <<SQ>>
Quote2 == <<DQ>>

(* ------------------------------------------------------------------ *)
(* Input lines explored                                                *)
(* ------------------------------------------------------------------ *)

L_export == <<"e", "x", "p", "o", "r", "t", " ", "c", "o", "n", "s", "t", " ", "s", "p", "e", "c", "S", "e", "c", "t", "i", "o", "n", "s", " ", "=", " ", "[">>
L_open == <<" ", " ", "{">>
L_end == <<"]", ";">>
L_subs == <<" ", " ", "s", "u", "b", "s", "e", "c", "t", "i", "o", "n", "s", ":", " ", "[">>
L_close_c == <<" ", " ", "}", ",">>
L_close == <<"}">>
L_endsubs_c == <<" ", " ", "]", ",">>
L_endsubs == <<"]">>
L_id_a == <<" ", " ", "i", "d", ":", " ", SQ, "a", SQ, ",">>
L_id_b == <<"i", "d", ":", " ", DQ, "b", DQ>>
L_title == <<" ", " ", "t", "i", "t", "l", "e", ":", " ", SQ, "T", SQ, ",">>
L_icon == <<" ", " ", "i", "c", "o", "n", ":", " ", DQ, "i", DQ, ",">>
L_junk == <<"/", "/", " ", "x">>
L_blank == <<>>
L_content1 == <<" ", " ", " ", " ", "c", "o", "n", "t", "e", "n", "t", ":", " ", BT, "c", BT, ",">>
L_code1 == <<" ", " ", " ", " ", "c", "o", "d", "e", ":", " ", BT, "k", BT, ",">>
L_notes == <<" ", " ", " ", " ", "n", "o", "t", "e", "s", ":", " ", "[">>
L_decisions == <<" ", " ", " ", " ", "d", "e", "c", "i", "s", "i", "o", "n", "s", ":", " ", "[">>
L_item == <<" ", " ", " ", " ", " ", " ", SQ, "n", SQ, ",">>
L_item_q == <<" ", " ", " ", " ", " ", " ", SQ, "a", DQ, SQ, ",">>
L_notes_e == <<" ", " ", " ", " ", "n", "o", "t", "e", "s", ":", " ", "[", "]", ",">>
L_notes_i == <<" ", " ", " ", " ", "n", "o", "t", "e", "s", ":", " ", "[", SQ, "n", SQ, "]", ",">>
L_content_h == <<" ", " ", " ", " ", "c", "o", "n", "t", "e", "n", "t", ":", " ", BT, "#", " ", "h", BT, ",">>
L_content_ws == <<" ", " ", " ", " ", "c", "o", "n", "t", "e", "n", "t", ":", " ", BT, " ", " ", BT, ",">>
L_content_e == <<" ", " ", " ", " ", "c", "o", "n", "t", "e", "n", "t", ":", " ", BT, BT, ",">>
L_content_e0 == <<" ", " ", " ", " ", "c", "o", "n", "t", "e", "n", "t", ":", " ", BT, BT>>
L_content_open == <<" ", " ", " ", " ", "c", "o", "n", "t", "e", "n", "t", ":", " ", BT, "H", "e", "l", "l", "o">>
L_text == <<" ", " ", "x">>
L_tick_c == <<" ", " ", BT, ",">>
L_text_tick == <<" ", " ", "y", BT>>
L_text_tick_c == <<" ", " ", "y", BT, ",">>
L_text_bt2 == <<"w", "\\", BT, BT, ",">>
L_code_open == <<" ", " ", " ", " ", "c", "o", "d", "e", ":", " ", BT>>
L_code_box1 == <<" ", " ", " ", " ", "c", "o", "d", "e", ":", " ", BT, "t", "y", "p", "e", " ", BoxBar, BT, ",">>
L_box == <<" ", " ", BoxCorner, BoxBar>>

(* ------------------------------------------------------------------ *)
(* Classes of input explored: each has its own lines and sizes         *)
(* ------------------------------------------------------------------ *)

\* "nest":    the nesting of sections and subsections, with their ids
\* "fields":  one section with one subsection, with its four fields, each opened
\*            on one line, in any order
\* "prose":   one section; one-line content fields and titles
\* "content": one section; multi-line content fields
\* "code":    one section; one-line and multi-line code fields
\* "empty":   one section with one subsection; content fields that open and close
\*            on the marker line with nothing between the delimiters
\* "lists":   one section with one subsection; list fields whose marker line also
\*            holds items or the closing bracket, items with inner quote characters
Profiles == {"nest", "fields", "prose", "content", "code", "empty", "lists"}

\* the lines every class of input needs to reach and leave a subsection
Common == {L_export, L_open, L_subs, L_close_c, L_endsubs_c, L_end}

\* the lines of an input of class p outside multi-line fields
OutsideLines(p) ==
    Common \cup
    CASE p = "nest" -> {L_close, L_endsubs, L_id_a, L_id_b, L_junk}
      [] p = "fields" -> {L_content1, L_content_ws, L_code1, L_notes, L_decisions, L_item}
      [] p = "prose" -> {L_title, L_icon, L_content1, L_content_h, L_content_ws, L_content_e}
      [] p = "content" -> {L_content_open, L_text, L_blank}
      [] p = "code" -> {L_code1, L_code_box1, L_code_open, L_box}
      [] p = "empty" -> {L_content_e, L_content_e0}
      [] p = "lists" -> {L_notes, L_notes_e, L_notes_i, L_decisions, L_item, L_item_q}

\* the lines of an input of class p that the extractor reads while it captures a
\* multi-line field: text, closing lines, and a closing brace (the lines that
\* follow a field whose closing delimiter is missing)
InsideLines(p) ==
    CASE p = "content" -> {L_text, L_blank, L_close_c, L_tick_c, L_text_tick_c, L_text_bt2}
      [] p = "code" -> {L_box, L_text_tick, L_close_c, L_tick_c}
      [] p = "empty" -> {L_close_c, L_tick_c}
      [] OTHER -> OutsideLines(p)

SectionCap(p) == IF p = "nest" THEN MaxSections ELSE 1
SubsectionCap(p) ==
    CASE p = "nest" -> MaxSubsections
      [] p \in {"fields", "empty", "lists"} -> 1
      [] OTHER -> FieldSubsections

(* ------------------------------------------------------------------ *)
(* State                                                               *)
(* ------------------------------------------------------------------ *)

STATE_ROOT == 0
STATE_IN_SECTIONS_ARRAY == 1
STATE_IN_SECTION == 2
STATE_IN_SUBSECTIONS_ARRAY == 3
STATE_IN_SUBSECTION == 4
STATE_IN_CONTENT == 5
STATE_IN_CODE == 6
STATE_IN_NOTES == 7
STATE_IN_DECISIONS == 8

VARIABLES
    profile,             \* the class of the input being read (fixed at Init)
    pc,                  \* "parse": in the loop of parse_ts_file; "parsed": it returned;
                         \* "rendered": generate_markdown returned
    state,               \* parse_ts_file: state
    buffer,              \* parse_ts_file: buffer
    current_section,     \* parse_ts_file: current_section (None or a reference)
    current_subsection,  \* parse_ts_file: current_subsection (None or a reference)
    sections,            \* parse_ts_file: sections (a list of references)
    heap,                \* the dict objects created so far, by reference
    closed,              \* history: <<subsection, section>> for each subsection closing brace
    raw,                 \* history: the input lines of the buffered capture in progress,
                         \* or of the one the latest line closed, from its marker line on
    appended,            \* history: how many lines were appended to the buffer or to a list
    outOfOrder,          \* history: some field marker was met after the marker of a field
                         \* that is rendered later
    skipped,             \* history: "line" or "marker" when the latest line was read
                         \* outside a buffered capture and matched none of the patterns
                         \* of the state it was read in ("marker": it opens with the
                         \* marker of a field), else "no"
    md_content,          \* __main__: md_content
    dir_exists,          \* the directory of target_file exists
    target_file          \* the text of target_file, None while there is no such file

vars == <<profile, pc, state, buffer, current_section, current_subsection,
          sections, heap, closed, raw, appended, outOfOrder, skipped, md_content,
          dir_exists, target_file>>

\* the file system as __main__ sees it
files == <<dir_exists, target_file>>

\* references to the dicts created by 'current_section = {...}' and
\* 'current_subsection = {}', numbered in order of creation
SecRef(n) == <<"section", n>>
SubRef(n) == <<"subsection", n>>
IsSecRef(r) == r[1] = "section"
IsSubRef(r) == r[1] = "subsection"
SecRefs == {r \in DOMAIN heap : IsSecRef(r)}
SubRefs == {r \in DOMAIN heap : IsSubRef(r)}

\* every dict of the kind of r written, as if they were one object
HeapSet_Shared(h, r, k, v) ==
    [q \in DOMAIN h |-> IF q[1] = r[1] THEN DictSet(h[q], k, v) ELSE h[q]]

\* heap[r][k] = v
HeapSet(h, r, k, v) == [h EXCEPT ![r] = DictSet(h[r], k, v)]

\* heap[r][k].append(v)
HeapAppend(h, r, k, v) == [h EXCEPT ![r] = DictSet(h[r], k, Append(h[r][k], v))]

\* the locals of parse_ts_file before its loop, and md_content not yet assigned
Locals0 ==
    /\ state = STATE_ROOT
    /\ buffer = <<>>
    /\ current_section = None
    /\ current_subsection = None
    /\ sections = <<>>
    /\ heap = EmptyDict
    /\ closed = {}
    /\ raw = <<>>
    /\ appended = 0
    /\ outOfOrder = FALSE
    /\ skipped = "no"
    /\ md_content = <<>>

\* extraction and rendering of an input that has been read
Init ==
    /\ profile \in Profiles
    /\ pc = "parse"
    /\ Locals0
    /\ dir_exists = FALSE
    /\ target_file = None

(* ------------------------------------------------------------------ *)
(* parse_ts_file: one iteration of the loop, by state                  *)
(* ------------------------------------------------------------------ *)

\* history: an appended line uses up one unit of the input's bound
CountAppended == appended < MaxAppended /\ appended' = appended + 1

IsScalarMarker(stripped, markers) == \E m \in markers : StartsWith(stripped, m)

clean_str(s) ==
    LET t == RStripSet(Strip(s), {","})
    IN IF StartsWith(t, Quote1) /\ EndsWith(t, Quote1) THEN SubSeq(t, 2, Len(t) - 1)
       ELSE IF StartsWith(t, Quote2) /\ EndsWith(t, Quote2) THEN SubSeq(t, 2, Len(t) - 1)
       ELSE t

\* clean_str(stripped.split(':', 1)[1])
ScalarValue(stripped) == clean_str(SplitAfter(stripped, Colon))

\* the test that ends a buffered capture
IsClosingLine(stripped) ==
    EndsWith(stripped, BackTickComma) \/ stripped = BackTick \/ stripped = BackTickComma

\* line.rstrip().rstrip(COMMA).rstrip(BACKTICK)
ClosingRemainder(line) == RStripSet(RStripSet(RStrip(line), {","}), {BT})

\* the test for a field that opens and closes on the marker line
IsSingleLine(val) ==
    \/ EndsWith(Strip(val), BackTickComma)
    \/ (EndsWith(Strip(val), BackTick) /\ Len(Strip(val)) > 1)

\* stripped.strip().rstrip(COMMA).strip(QUOTE1).strip(QUOTE2)
ItemValue(stripped) ==
    StripSet(StripSet(RStripSet(Strip(stripped), {","}), {SQ}), {DQ})

InRoot(line) ==
    /\ state = STATE_ROOT
    /\ state' = IF Contains(line, K_export) THEN STATE_IN_SECTIONS_ARRAY ELSE state
    /\ UNCHANGED <<buffer, current_section, current_subsection, sections, heap, closed>>
    /\ UNCHANGED <<appended, outOfOrder>>
    /\ raw' = <<>>

\* a section created without its list of subsections: current_section = {}
NewSection_Bare == <<>>

\* current_section = {'subsections': []}
NewSection == [subsections |-> <<>>]

InSectionsArray(line) ==
    LET stripped == Strip(line)
        ref == SecRef(Cardinality(SecRefs) + 1)
    IN
    /\ state = STATE_IN_SECTIONS_ARRAY
    /\ IF stripped = <<"{">> THEN
            /\ Cardinality(SecRefs) < SectionCap(profile)
            /\ heap' = (ref :> NewSection) @@ heap
            /\ current_section' = ref
            /\ state' = STATE_IN_SECTION
       ELSE /\ state' = IF stripped = <<"]", ";">> THEN STATE_ROOT ELSE state
            /\ UNCHANGED <<heap, current_section>>
    /\ UNCHANGED <<buffer, current_subsection, sections, closed>>
    /\ UNCHANGED <<appended, outOfOrder>>
    /\ raw' = <<>>

\* the section put in front of the sequence: sections.insert(0, current_section)
AppendSection_Front(secs, ref) == <<ref>> \o secs

\* sections.append(current_section)
AppendSection(secs, ref) == Append(secs, ref)

InSection(line) ==
    LET stripped == Strip(line) IN
    /\ state = STATE_IN_SECTION
    /\ IF StartsWith(stripped, K_id) THEN
            /\ heap' = HeapSet(heap, current_section, "id", ScalarValue(stripped))
            /\ UNCHANGED <<state, sections>>
       ELSE IF StartsWith(stripped, K_title) THEN
            /\ heap' = HeapSet(heap, current_section, "title", ScalarValue(stripped))
            /\ UNCHANGED <<state, sections>>
       ELSE IF StartsWith(stripped, K_icon) THEN
            /\ heap' = HeapSet(heap, current_section, "icon", ScalarValue(stripped))
            /\ UNCHANGED <<state, sections>>
       ELSE IF StartsWith(stripped, K_subsections) THEN
            /\ state' = STATE_IN_SUBSECTIONS_ARRAY
            /\ UNCHANGED <<heap, sections>>
       ELSE IF stripped = <<"}", ",">> \/ stripped = <<"}">> THEN
            /\ sections' = AppendSection(sections, current_section)
            /\ state' = STATE_IN_SECTIONS_ARRAY
            /\ UNCHANGED heap
       ELSE UNCHANGED <<state, heap, sections>>
    /\ UNCHANGED <<buffer, current_section, current_subsection, closed, outOfOrder>>
    /\ raw' = <<>>
    /\ UNCHANGED appended

\* the end of the subsections list taken for the end of the section
InSubsectionsArray_ClosesSection(line) ==
    LET stripped == Strip(line)
        ref == SubRef(Cardinality(SubRefs) + 1)
    IN
    /\ state = STATE_IN_SUBSECTIONS_ARRAY
    /\ IF stripped = <<"{">> THEN
            /\ Cardinality(SubRefs) < SubsectionCap(profile)
            /\ heap' = (ref :> EmptyDict) @@ heap
            /\ current_subsection' = ref
            /\ state' = STATE_IN_SUBSECTION
       ELSE /\ state' = IF stripped = <<"]", ",">> \/ stripped = <<"]">>
                        THEN STATE_IN_SECTIONS_ARRAY ELSE state
            /\ UNCHANGED <<heap, current_subsection>>
    /\ UNCHANGED <<buffer, current_section, sections, closed>>
    /\ UNCHANGED <<appended, outOfOrder>>
    /\ raw' = <<>>

InSubsectionsArray(line) ==
    LET stripped == Strip(line)
        ref == SubRef(Cardinality(SubRefs) + 1)
    IN
    /\ state = STATE_IN_SUBSECTIONS_ARRAY
    /\ IF stripped = <<"{">> THEN
            /\ Cardinality(SubRefs) < SubsectionCap(profile)
            /\ heap' = (ref :> EmptyDict) @@ heap
            /\ current_subsection' = ref
            /\ state' = STATE_IN_SUBSECTION
       ELSE /\ state' = IF stripped = <<"]", ",">> \/ stripped = <<"]">>
                        THEN STATE_IN_SECTION ELSE state
            /\ UNCHANGED <<heap, current_subsection>>
    /\ UNCHANGED <<buffer, current_section, sections, closed>>
    /\ UNCHANGED <<appended, outOfOrder>>
    /\ raw' = <<>>

\* the fields a subsection renders, in the order generate_markdown emits them
RenderOrder == <<"content", "code", "decisions", "notes">>
FieldMarker(key) ==
    CASE key = "content" -> K_content [] key = "code" -> K_code
      [] key = "decisions" -> K_decisions [] key = "notes" -> K_notes

\* history: the line is the marker of a field and the subsection sub already
\* holds a field that is rendered after it
MetAfterLater(stripped, sub) ==
    \E a, b \in 1..4 :
        /\ a < b
        /\ StartsWith(stripped, FieldMarker(RenderOrder[a]))
        /\ RenderOrder[b] \in DOMAIN sub

IsFieldMarker(stripped) ==
    \E key \in {"content", "code", "decisions", "notes"} :
        StartsWith(stripped, FieldMarker(key))

\* the scalar fields STATE_IN_SUBSECTION scans for, and the marker of each
KeyMarker(key) == CASE key = "id" -> K_id [] key = "title" -> K_title [] key = "icon" -> K_icon

\* the subsection scanned for the scalar fields of a section as well
SubsectionKeys_OfSection == {"id", "title", "icon"}

SubsectionKeys == {"id", "title"}

\* the subsection appended to the first section of the output instead of its own
AppendSubsection_ToFirst(h, sec, sub) ==
    IF SecRef(1) \in DOMAIN h /\ "subsections" \in DOMAIN h[SecRef(1)]
    THEN HeapAppend(h, SecRef(1), "subsections", sub)
    ELSE h

\* if current_section and 'subsections' in current_section:
\*     current_section['subsections'].append(current_subsection)
AppendSubsection(h, sec, sub) ==
    IF sec # None /\ "subsections" \in DOMAIN h[sec]
    THEN HeapAppend(h, sec, "subsections", sub)
    ELSE h

InSubsection(line) ==
    LET stripped == Strip(line)
        content_val == SplitAfter(line, K_content)
        code_val == SplitAfter(line, K_code)
    IN
    /\ state = STATE_IN_SUBSECTION
    /\ IF \E key \in SubsectionKeys : StartsWith(stripped, KeyMarker(key)) THEN
            LET key == CHOOSE k \in SubsectionKeys : StartsWith(stripped, KeyMarker(k))
            IN /\ heap' = HeapSet(heap, current_subsection, key, ScalarValue(stripped))
               /\ UNCHANGED <<state, buffer, closed>>
       ELSE IF StartsWith(stripped, K_content) THEN
            IF IsSingleLine(content_val) THEN
                /\ heap' = HeapSet(heap, current_subsection, "content",
                                   RSplitBefore(content_val, BackTick))
                /\ UNCHANGED <<state, buffer, closed>>
            ELSE
                /\ buffer' = <<content_val>>
                /\ state' = STATE_IN_CONTENT
                /\ UNCHANGED <<heap, closed>>
       ELSE IF StartsWith(stripped, K_code) THEN
            IF IsSingleLine(code_val) THEN
                /\ heap' = HeapSet(heap, current_subsection, "code",
                                   RSplitBefore(code_val, BackTick))
                /\ UNCHANGED <<state, buffer, closed>>
            ELSE
                /\ buffer' = <<code_val>>
                /\ state' = STATE_IN_CODE
                /\ UNCHANGED <<heap, closed>>
       ELSE IF StartsWith(stripped, K_notes) THEN
            /\ heap' = HeapSet(heap, current_subsection, "notes", <<>>)
            /\ state' = STATE_IN_NOTES
            /\ UNCHANGED <<buffer, closed>>
       ELSE IF StartsWith(stripped, K_decisions) THEN
            /\ heap' = HeapSet(heap, current_subsection, "decisions", <<>>)
            /\ state' = STATE_IN_DECISIONS
            /\ UNCHANGED <<buffer, closed>>
       ELSE IF stripped = <<"}", ",">> \/ stripped = <<"}">> THEN
            /\ heap' = AppendSubsection(heap, current_section, current_subsection)
            /\ closed' = closed \cup {<<current_subsection, current_section>>}
            /\ state' = STATE_IN_SUBSECTIONS_ARRAY
            /\ UNCHANGED buffer
       ELSE UNCHANGED <<state, buffer, heap, closed>>
    /\ UNCHANGED <<current_section, current_subsection, sections>>
    /\ raw' = IF state' \in {STATE_IN_CONTENT, STATE_IN_CODE} THEN <<line>> ELSE <<>>
    /\ outOfOrder' = (outOfOrder \/ MetAfterLater(stripped, heap[current_subsection]))
    /\ UNCHANGED appended

\* the line buffered without its indentation: buffer.append(stripped)
BufferedLine_Stripped(line) == Strip(line)

\* buffer.append(line): the line is kept whole
BufferedLine(line) == line

\* STATE_IN_CONTENT and STATE_IN_CODE: the same code on the field named key
Capture(line, key) ==
    LET stripped == Strip(line)
        val == ClosingRemainder(line)
        buf == IF val # <<>> THEN Append(buffer, val) ELSE buffer
    IN
    /\ raw' = Append(raw, line)
    /\ IF IsClosingLine(stripped) THEN
            /\ buffer' = buf
            /\ heap' = HeapSet(heap, current_subsection, key, Join(buf, NL))
            /\ state' = STATE_IN_SUBSECTION
            /\ UNCHANGED appended
       ELSE
            /\ CountAppended
            /\ buffer' = Append(buffer, BufferedLine(line))
            /\ UNCHANGED <<state, heap>>

InContent(line) ==
    /\ state = STATE_IN_CONTENT
    /\ Capture(line, "content")
    /\ UNCHANGED <<current_section, current_subsection, sections, closed, outOfOrder>>

InCode(line) ==
    /\ state = STATE_IN_CODE
    /\ Capture(line, "code")
    /\ UNCHANGED <<current_section, current_subsection, sections, closed, outOfOrder>>

\* the list states left by a closing brace as well as by a closing bracket
ListItems_BraceEnds(line, key) ==
    LET stripped == Strip(line) IN
    IF StartsWith(stripped, Quote1) \/ StartsWith(stripped, Quote2) THEN
        /\ CountAppended
        /\ heap' = HeapAppend(heap, current_subsection, key, ItemValue(stripped))
        /\ UNCHANGED state
    ELSE
        /\ state' = IF \/ StartsWith(stripped, <<"]", ",">>) \/ stripped = <<"]">>
                       \/ stripped = <<"}", ",">> \/ stripped = <<"}">>
                    THEN STATE_IN_SUBSECTION ELSE state
        /\ UNCHANGED <<heap, appended>>

\* STATE_IN_NOTES and STATE_IN_DECISIONS: the same code on the list named key
ListItems(line, key) ==
    LET stripped == Strip(line) IN
    IF StartsWith(stripped, Quote1) \/ StartsWith(stripped, Quote2) THEN
        /\ CountAppended
        /\ heap' = HeapAppend(heap, current_subsection, key, ItemValue(stripped))
        /\ UNCHANGED state
    ELSE
        /\ state' = IF StartsWith(stripped, <<"]", ",">>) \/ stripped = <<"]">>
                    THEN STATE_IN_SUBSECTION ELSE state
        /\ UNCHANGED <<heap, appended>>

InNotes(line) ==
    /\ state = STATE_IN_NOTES
    /\ ListItems(line, "notes")
    /\ UNCHANGED <<buffer, current_section, current_subsection, sections, closed>>
    /\ UNCHANGED outOfOrder
    /\ raw' = <<>>

InDecisions(line) ==
    /\ state = STATE_IN_DECISIONS
    /\ ListItems(line, "decisions")
    /\ UNCHANGED <<buffer, current_section, current_subsection, sections, closed>>
    /\ UNCHANGED outOfOrder
    /\ raw' = <<>>

\* history: the patterns each state other than the two capture states scans a
\* line for (spec 4.1)
Scanned(st, line) ==
    LET stripped == Strip(line)
        closingBrace == stripped = <<"}", ",">> \/ stripped = <<"}">>
        closingList == stripped = <<"]", ",">> \/ stripped = <<"]">>
        quoted == StartsWith(stripped, Quote1) \/ StartsWith(stripped, Quote2)
    IN CASE st = STATE_ROOT -> Contains(line, K_export)
         [] st = STATE_IN_SECTIONS_ARRAY -> stripped = <<"{">> \/ stripped = <<"]", ";">>
         [] st = STATE_IN_SECTION ->
                \/ IsScalarMarker(stripped, {K_id, K_title, K_icon, K_subsections})
                \/ closingBrace
         [] st = STATE_IN_SUBSECTIONS_ARRAY -> stripped = <<"{">> \/ closingList
         [] st = STATE_IN_SUBSECTION ->
                \/ IsScalarMarker(stripped, {K_id, K_title})
                \/ IsFieldMarker(stripped)
                \/ closingBrace
         [] st \in {STATE_IN_NOTES, STATE_IN_DECISIONS} ->
                quoted \/ StartsWith(stripped, <<"]", ",">>) \/ stripped = <<"]">>
         [] OTHER -> TRUE

\* history: the line opens with the marker of a field of a section or subsection
OpensWithMarker(line) ==
    \/ IsScalarMarker(Strip(line), {K_id, K_title, K_icon, K_subsections})
    \/ IsFieldMarker(Strip(line))

\* the lines an input of class p may hold where the extractor is in state st
Vocab(p, st) ==
    IF st \in {STATE_IN_CONTENT, STATE_IN_CODE} THEN InsideLines(p) ELSE OutsideLines(p)

\* the body of 'for i, line in enumerate(lines)' for one line
ProcessLine(line) ==
    /\ pc = "parse"
    /\ \/ InRoot(line)
       \/ InSectionsArray(line)
       \/ InSection(line)
       \/ InSubsectionsArray(line)
       \/ InSubsection(line)
       \/ InContent(line)
       \/ InCode(line)
       \/ InNotes(line)
       \/ InDecisions(line)
    /\ skipped' = IF state \in {STATE_IN_CONTENT, STATE_IN_CODE} \/ Scanned(state, line)
                   THEN "no"
                   ELSE IF OpensWithMarker(line) THEN "marker" ELSE "line"
    /\ UNCHANGED <<profile, pc, md_content, files>>

\* the end of the input closing the section that is still open:
\* sections.append(current_section) before return sections
EndOfInput_Flush ==
    /\ pc = "parse"
    /\ pc' = "parsed"
    /\ skipped' = "no"
    /\ sections' = IF state >= STATE_IN_SECTION
                   THEN Append(sections, current_section) ELSE sections
    /\ UNCHANGED <<profile, state, buffer, current_section, current_subsection,
                   heap, closed, raw, appended, outOfOrder, md_content, files>>

\* the loop ends with the input: return sections
EndOfInput ==
    /\ pc = "parse"
    /\ pc' = "parsed"
    /\ skipped' = "no"
    /\ UNCHANGED <<profile, state, buffer, current_section, current_subsection,
                   sections, heap, closed, raw, appended, outOfOrder, md_content, files>>

(* ------------------------------------------------------------------ *)
(* generate_markdown                                                   *)
(* ------------------------------------------------------------------ *)

T_Unknown == <<"U", "n", "k", "n", "o", "w", "n">>
T_h1 == <<"#", " ">>
T_h2 == <<"#", "#", " ">>
T_idOpen == <<"<", "!", "-", "-", " ", "i", "d", ":", " ">>
T_idClose == <<" ", "-", "-", ">">>
T_fenceTs == <<BT, BT, BT, "t", "y", "p", "e", "s", "c", "r", "i", "p", "t">>
T_fenceText == <<BT, BT, BT, "t", "e", "x", "t">>
T_fenceEnd == <<BT, BT, BT>>
T_decisions == <<"#", "#", "#", " ", "D", "e", "c", "i", "s", "i", "o", "n", "s">>
T_notes == <<"#", "#", "#", " ", "N", "o", "t", "e", "s">>
T_bullet == <<"-", " ">>
K_interface == <<"i", "n", "t", "e", "r", "f", "a", "c", "e", " ">>
K_type == <<"t", "y", "p", "e", " ">>

\* the concatenation of a sequence of sequences
RECURSIVE Flatten(_)
Flatten(ss) == IF ss = <<>> THEN <<>> ELSE ss[1] \o Flatten(Tail(ss))

\* the two entries appended for a heading: the heading line and the id comment
HeadingEntries(prefix, text, id) ==
    << prefix \o text, T_idOpen \o id \o T_idClose \o <<NL>> >>

\* content = sub.get('content', ''); if content: md.append(content.strip() + NL)
ContentEntries(sub) ==
    LET content == DictGet(sub, "content", <<>>)
    IN IF content # <<>> THEN << Strip(content) \o <<NL>> >> ELSE <<>>

\* the opening fence of a code block, after 'md[-1] = ...'
FenceLine(code) ==
    IF Contains(code, <<BoxCorner>>) \/ Contains(code, <<BoxBar>>)
    THEN T_fenceText ELSE T_fenceTs

\* the entries appended between md.append of the fence and md.append(code.strip()):
\* an empty entry when the code holds a box-drawing character
FenceExtra(code) ==
    IF Contains(code, <<BoxCorner>>) \/ Contains(code, <<BoxBar>>) THEN << <<>> >>
    ELSE <<>>

CodeEntries(sub) ==
    LET code == DictGet(sub, "code", <<>>)
    IN IF code # <<>>
       THEN LET first == <<T_fenceTs>> \o FenceExtra(code)
                fixed == [first EXCEPT ![Len(first)] = IF FenceLine(code) = T_fenceText
                                                       THEN T_fenceText ELSE @]
            IN fixed \o << Strip(code), T_fenceEnd \o <<NL>> >>
       ELSE <<>>

\* a Decisions / Notes list
ListEntries(items, heading) ==
    IF items # <<>>
    THEN <<heading>> \o [k \in 1..Len(items) |-> T_bullet \o items[k]] \o << <<>> >>
    ELSE <<>>

\* the blocks of a subsection emitted in the order the extractor scans for the
\* markers (notes before decisions) instead of the render order
SubsectionEntries_ScanOrder(sub) ==
    HeadingEntries(T_h2, DictGet(sub, "title", T_Unknown), DictGet(sub, "id", <<>>))
    \o ContentEntries(sub)
    \o CodeEntries(sub)
    \o ListEntries(DictGet(sub, "notes", <<>>), T_notes)
    \o ListEntries(DictGet(sub, "decisions", <<>>), T_decisions)

\* the body of 'for sub in section.get(subsections, [])'
SubsectionEntries(sub) ==
    HeadingEntries(T_h2, DictGet(sub, "title", T_Unknown), DictGet(sub, "id", <<>>))
    \o ContentEntries(sub)
    \o CodeEntries(sub)
    \o ListEntries(DictGet(sub, "decisions", <<>>), T_decisions)
    \o ListEntries(DictGet(sub, "notes", <<>>), T_notes)

\* a section written only when it holds subsections
SectionEntries_OnlyWithSubsections(section) ==
    LET subs == DictGet(section, "subsections", <<>>)
    IN IF subs = <<>> THEN <<>>
       ELSE HeadingEntries(T_h1, DictGet(section, "icon", <<>>) \o <<" ">>
                                  \o DictGet(section, "title", T_Unknown),
                           DictGet(section, "id", <<>>))
            \o Flatten([k \in 1..Len(subs) |-> SubsectionEntries(subs[k])])

\* the body of 'for section in sections'
SectionEntries(section) ==
    LET subs == DictGet(section, "subsections", <<>>)
    IN HeadingEntries(T_h1, DictGet(section, "icon", <<>>) \o <<" ">>
                             \o DictGet(section, "title", T_Unknown),
                      DictGet(section, "id", <<>>))
       \o Flatten([k \in 1..Len(subs) |-> SubsectionEntries(subs[k])])

\* the list md at the end of generate_markdown
MdEntries(secs) == Flatten([k \in 1..Len(secs) |-> SectionEntries(secs[k])])

generate_markdown(secs) == Join(MdEntries(secs), NL)

\* the Section records a list of references stands for: each dict with its
\* subsections list holding the subsection dicts
SectionRecord(h, ref) ==
    [h[ref] EXCEPT !["subsections"] = [k \in 1..Len(@) |-> h[@[k]]]]

SectionRecords(h, secs) == [k \in 1..Len(secs) |-> SectionRecord(h, secs[k])]

\* md_content = generate_markdown(sections)
Render ==
    /\ pc = "parsed"
    /\ md_content' = generate_markdown(SectionRecords(heap, sections))
    /\ pc' = "rendered"
    /\ UNCHANGED <<profile, state, buffer, current_section, current_subsection,
                   sections, heap, closed, raw, appended, outOfOrder, skipped, files>>

Next ==
    \/ \E line \in Vocab(profile, state) : ProcessLine(line)
    \/ EndOfInput
    \/ Render

Spec == Init /\ [][Next]_vars

(* ------------------------------------------------------------------ *)
(* __main__: a run of the entry point                                  *)
(* ------------------------------------------------------------------ *)

\* the class of the inputs read by the runs explored
MainProfiles == {"prose"}

\* the text of an output file left by an earlier run
OldText == <<"o", "l", "d">>

\* before the run: no directory, a directory without the file, or the file
MainInit ==
    /\ profile \in MainProfiles
    /\ pc = "start"
    /\ Locals0
    /\ dir_exists \in BOOLEAN
    /\ target_file \in {None, OldText}
    /\ target_file # None => dir_exists

parserVars == <<profile, state, buffer, current_section, current_subsection, sections,
                heap, closed, raw, appended, outOfOrder, skipped, md_content>>

\* with open(source_file, 'r', encoding='utf-8') as f: content = f.read()
ReadSource ==
    /\ pc = "start"
    /\ pc' = "parse"
    /\ UNCHANGED <<parserVars, files>>

\* open or read raises (no such file, unreadable, not UTF-8): the process ends
ReadFails ==
    /\ pc = "start"
    /\ pc' = "read_failed"
    /\ UNCHANGED <<parserVars, files>>

\* the directory made before the source is read as well
MakeDirs_AtStart ==
    /\ \/ pc = "start" /\ ~dir_exists /\ pc' = pc
       \/ pc = "rendered" /\ pc' = "dirs"
    /\ dir_exists' = TRUE
    /\ UNCHANGED <<parserVars, target_file>>

\* os.makedirs(os.path.dirname(target_file), exist_ok=True)
MakeDirs ==
    /\ pc = "rendered"
    /\ dir_exists' = TRUE
    /\ pc' = "dirs"
    /\ UNCHANGED <<parserVars, target_file>>

\* with open(target_file, 'w', encoding='utf-8') as f: the file is created or truncated
OpenTarget ==
    /\ pc = "dirs"
    /\ target_file' = <<>>
    /\ pc' = "opened"
    /\ UNCHANGED <<parserVars, dir_exists>>

\* f.write(md_content), the file closed, and the final print
WriteTarget ==
    /\ pc = "opened"
    /\ target_file' = md_content
    /\ pc' = "done"
    /\ UNCHANGED <<parserVars, dir_exists>>

MainNext ==
    \/ ReadSource
    \/ ReadFails
    \/ \E line \in Vocab(profile, state) : ProcessLine(line)
    \/ EndOfInput
    \/ Render
    \/ MakeDirs
    \/ OpenTarget
    \/ WriteTarget

Main == MainInit /\ [][MainNext]_vars

(* ------------------------------------------------------------------ *)
(* Vocabulary of the claims                                            *)
(* ------------------------------------------------------------------ *)

\* the Section records extracted, and all their Subsection records in document order
Records == SectionRecords(heap, sections)
SubRecords == Flatten([k \in 1..Len(Records) |-> Records[k].subsections])

\* the rendered document, line by line
OutLines == IF md_content = <<>> THEN <<>> ELSE Split(md_content, NL)

\* how many elements of a sequence satisfy a test
Count(seq, Test(_)) == Cardinality({k \in 1..Len(seq) : Test(seq[k])})

IsH1(l) == StartsWith(l, T_h1)
IsH2(l) == StartsWith(l, T_h2)
IsIdComment(l) == StartsWith(l, T_idOpen)
IsFence(l) == StartsWith(l, T_fenceEnd)

\* the lines a content or code value contributes to the rendered document
RenderedText(value) == IF Strip(value) = <<>> THEN <<>> ELSE Split(Strip(value), NL)
FieldText(sub) ==
    RenderedText(DictGet(sub, "content", <<>>)) \o RenderedText(DictGet(sub, "code", <<>>))

\* no line of a content or code field looks like a line the renderer writes itself:
\* a heading, an id comment, a fence, a list heading or a bullet
IsMarkup(l) ==
    \/ StartsWith(l, <<"#">>)
    \/ StartsWith(l, <<"<", "!">>)
    \/ StartsWith(l, T_fenceEnd)
    \/ StartsWith(l, T_bullet)
PlainFieldText ==
    LET subs == SubRecords
    IN \A k \in 1..Len(subs) :
          LET text == FieldText(subs[k]) IN \A j \in 1..Len(text) : ~IsMarkup(text[j])

(* ------------------------------------------------------------------ *)
(* C1                                                                  *)
(* ------------------------------------------------------------------ *)

\* a well-formed input has been read to its end: the declaration was opened and every
\* section, subsection and field that was opened has been closed
WellFormedInput == state = STATE_ROOT

\* no line of a rendered content or code block starts like a heading
IsHeadingLike(l) == IsH1(l) \/ IsH2(l)
NoHeadingText ==
    LET subs == SubRecords
    IN \A k \in 1..Len(subs) :
          LET text == FieldText(subs[k]) IN \A j \in 1..Len(text) : ~IsHeadingLike(text[j])

HeadingCountsAgree ==
    LET lines == OutLines
    IN /\ Count(lines, IsH1) = Len(sections)
       /\ Count(lines, IsH2) = Len(SubRecords)

\* C1 as stated: the rendered document of every input holds as many lines starting
\* with "# " as sections were extracted and as many lines starting with "## " as
\* subsections, whatever the text of the fields.
C1_HeadingCounts_AsStated == (pc = "rendered" /\ WellFormedInput) => HeadingCountsAgree

\* C1 amended: when no line of a content or code field itself starts with "# " or
\* "## " (here: with any markup the renderer writes), the rendered document holds
\* exactly one "# " line per extracted section and one "## " line per subsection,
\* and no sections yield the empty document.
C1_HeadingCounts ==
    pc = "rendered" =>
        /\ NoHeadingText => HeadingCountsAgree
        /\ sections = <<>> => md_content = <<>>

\* a rendered document with a section, a subsection and a non-empty plain prose block
C1_Witness ==
    /\ pc = "rendered"
    /\ WellFormedInput
    /\ NoHeadingText
    /\ Len(Records) >= 1
    /\ \E k \in 1..Len(SubRecords) : Strip(DictGet(SubRecords[k], "content", <<>>)) # <<>>

(* ------------------------------------------------------------------ *)
(* C2                                                                  *)
(* ------------------------------------------------------------------ *)

\* references are numbered in the order the opening braces were processed
CreatedInOrder(refs) == \A j, k \in 1..Len(refs) : j < k => refs[j][2] < refs[k][2]

\* the heading lines and id comments a document must show, in document order
IdComment(d) == T_idOpen \o DictGet(d, "id", <<>>) \o T_idClose
SubsectionHead(sub) == << T_h2 \o DictGet(sub, "title", T_Unknown), IdComment(sub) >>
SectionHead(sec) ==
    << T_h1 \o DictGet(sec, "icon", <<>>) \o <<" ">> \o DictGet(sec, "title", T_Unknown),
       IdComment(sec) >>
ExpectedHeads ==
    LET recs == Records
    IN Flatten([k \in 1..Len(recs) |->
          SectionHead(recs[k])
          \o Flatten([j \in 1..Len(recs[k].subsections) |->
                          SubsectionHead(recs[k].subsections[j])])])

IsHead(l) == IsH1(l) \/ IsH2(l) \/ IsIdComment(l)

\* C2: sections are in the output sequence, and subsections in their section, in
\* the order their opening braces were read; the rendered document shows their
\* headings and id comments in that same order.
C2_OrderPreserved ==
    /\ CreatedInOrder(sections)
    /\ \A r \in SecRefs : CreatedInOrder(heap[r].subsections)
    /\ (pc = "rendered" /\ PlainFieldText) => SelectSeq(OutLines, IsHead) = ExpectedHeads

\* a rendered document of two sections with different ids, one of them holding
\* two subsections with different ids
C2_Witness ==
    /\ pc = "rendered"
    /\ Len(Records) >= 2
    /\ DictGet(Records[1], "id", <<>>) # DictGet(Records[2], "id", <<>>)
    /\ \E k \in 1..Len(Records) :
          /\ Len(Records[k].subsections) >= 2
          /\ DictGet(Records[k].subsections[1], "id", <<>>)
                # DictGet(Records[k].subsections[2], "id", <<>>)

(* ------------------------------------------------------------------ *)
(* C3                                                                  *)
(* ------------------------------------------------------------------ *)

\* the segments of a document, one for each of its "## " lines in order: the lines
\* that follow the "## " line, up to the next "# " or "## " line
SegmentsOf(lines) ==
    LET heads == {k \in 1..Len(lines) : IsHeadingLike(lines[k])}
        h2 == SelectSeq([k \in 1..Len(lines) |-> k], LAMBDA k : IsH2(lines[k]))
    IN [n \in 1..Len(h2) |->
          LET later == {k \in heads : k > h2[n]}
          IN Slice(lines, h2[n] + 1, IF later = {} THEN Len(lines) ELSE Min(later) - 1)]

Segments == SegmentsOf(OutLines)

\* a segment as the blocks show: blank lines dropped, an opening fence read as a
\* fence whatever its tag, fence lines in direct succession read as one
Fenced(lines) == [k \in 1..Len(lines) |-> IF IsFence(lines[k]) THEN T_fenceEnd ELSE lines[k]]
Shown(lines) ==
    LET kept == SelectSeq(Fenced(lines), LAMBDA l : Strip(l) # <<>>)
    IN Flatten([k \in 1..Len(kept) |->
            IF k > 1 /\ kept[k] = T_fenceEnd /\ kept[k - 1] = T_fenceEnd
            THEN <<>> ELSE <<kept[k]>>])

Bullets(items) == [k \in 1..Len(items) |-> T_bullet \o items[k]]

\* the blocks of a subsection record in the fixed order: prose, fenced code,
\* Decisions list, Notes list, each only when the record holds it
BlocksInRenderOrder(sub) ==
    LET content == DictGet(sub, "content", <<>>)
        code == DictGet(sub, "code", <<>>)
        decisions == DictGet(sub, "decisions", <<>>)
        notes == DictGet(sub, "notes", <<>>)
    IN << IdComment(sub) >>
       \o RenderedText(content)
       \o (IF code # <<>> THEN <<T_fenceEnd>> \o RenderedText(code) \o <<T_fenceEnd>> ELSE <<>>)
       \o (IF decisions # <<>> THEN <<T_decisions>> \o Bullets(decisions) ELSE <<>>)
       \o (IF notes # <<>> THEN <<T_notes>> \o Bullets(notes) ELSE <<>>)

\* C3: in the rendered document, what follows the heading of each subsection is
\* its prose, then its fenced code, then its Decisions list, then its Notes list
\* (those the record holds), in whatever order the markers were met in the source.
C3_FixedBlockOrder ==
    (pc = "rendered" /\ NoHeadingText) =>
        LET segs == Segments
            subs == SubRecords
        IN /\ Len(segs) = Len(subs)
           /\ \A n \in 1..Len(subs) : Shown(segs[n]) = Shown(BlocksInRenderOrder(subs[n]))

\* a rendered subsection that holds all four blocks and whose markers were met in
\* another order than the render order
C3_Witness ==
    /\ pc = "rendered"
    /\ NoHeadingText
    /\ outOfOrder
    /\ \E n \in 1..Len(SubRecords) :
          /\ {"content", "code", "decisions", "notes"} \subseteq DOMAIN SubRecords[n]
          /\ DictGet(SubRecords[n], "decisions", <<>>) # <<>>
          /\ DictGet(SubRecords[n], "notes", <<>>) # <<>>

(* ------------------------------------------------------------------ *)
(* C4                                                                  *)
(* ------------------------------------------------------------------ *)

\* the field a capture that began with the line first belongs to
CapturedKey(first) == IF StartsWith(Strip(first), K_content) THEN "content" ELSE "code"

\* a closing line without its closing delimiter and the separator after it
WithoutDelimiter(line) ==
    LET r == RStrip(line)
    IN IF EndsWith(r, BackTickComma) THEN Slice(r, 1, Len(r) - 2)
       ELSE IF EndsWith(r, BackTick) THEN Slice(r, 1, Len(r) - 1)
       ELSE r

\* the source lines of a field that opened on lines[1] and closed on the last line,
\* less the opening marker and the closing delimiter
SourceLines(lines) ==
    LET n == Len(lines)
    IN << SplitAfter(lines[1], FieldMarker(CapturedKey(lines[1]))) >>
       \o Slice(lines, 2, n - 1)
       \o << WithoutDelimiter(lines[n]) >>

\* C4 as stated: when a content or code field that opened on one line closes on a
\* later line, the value stored is, up to one overall trim, the source lines of the
\* field in order, changed only by the removal of the opening marker and of the
\* closing delimiter with its trailing separator.
C4_MultiLineFidelity_AsStated ==
    (pc = "parse" /\ state = STATE_IN_SUBSECTION /\ Len(raw) >= 2) =>
        Strip(DictGet(heap[current_subsection], CapturedKey(raw[1]), <<>>))
            = Strip(Join(SourceLines(raw), NL))

(* ------------------------------------------------------------------ *)
(* C5                                                                  *)
(* ------------------------------------------------------------------ *)

HasBoxDrawing(code) == Contains(code, <<BoxCorner>>) \/ Contains(code, <<BoxBar>>)

\* the opening fences of a segment: its fence lines that carry a tag
OpeningFences(lines) == SelectSeq(lines, LAMBDA l : IsFence(l) /\ Len(l) > Len(T_fenceEnd))

\* C5 as stated: the segment of every subsection with a non-empty code field holds
\* exactly one opening fence line, tagged text when the code holds a box-drawing
\* character (whatever keywords it holds besides) and typescript when it holds none.
C5_FenceTag_AsStated ==
    (pc = "rendered" /\ PlainFieldText) =>
        LET segs == Segments
            subs == SubRecords
        IN /\ Len(segs) = Len(subs)
           /\ \A n \in 1..Len(subs) :
                 LET code == DictGet(subs[n], "code", <<>>)
                 IN code # <<>> =>
                       OpeningFences(segs[n])
                         = << IF HasBoxDrawing(code) THEN T_fenceText ELSE T_fenceTs >>

(* ------------------------------------------------------------------ *)
(* C6                                                                  *)
(* ------------------------------------------------------------------ *)

Capturing == state \in {STATE_IN_CONTENT, STATE_IN_CODE}

\* the members of a sequence
Range(seq) == {seq[k] : k \in 1..Len(seq)}

\* C6 as stated: when the input ends inside a multi-line capture, the content or
\* code field of the subsection being captured holds the lines absorbed.
C6_UnclosedCapture_AsStated ==
    (pc = "parsed" /\ Capturing /\ Len(raw) >= 2) =>
        LET key == CapturedKey(raw[1])
            sub == heap[current_subsection]
        IN /\ key \in DOMAIN sub
           /\ \A k \in 2..Len(raw) : raw[k] \in Range(Split(sub[key], NL))

\* C6 amended: while the closing delimiter is missing, every line read is appended
\* whole to the capture buffer, up to the end of the input and with no error; the
\* field itself is never assigned and no record changes, and neither the subsection
\* being captured nor its section is part of the result.
C6_UnclosedCapture ==
    /\ [](Capturing =>
            /\ buffer = << SplitAfter(raw[1], FieldMarker(CapturedKey(raw[1]))) >> \o Tail(raw)
            /\ current_section \notin Range(sections)
            /\ \A r \in SecRefs : current_subsection \notin Range(heap[r].subsections))
    /\ [][(Capturing /\ state' = state) => (heap' = heap /\ sections' = sections)]_vars

\* the input ended inside a capture that had absorbed a text line and the closing
\* brace of its subsection
C6_Witness ==
    /\ pc = "parsed"
    /\ Capturing
    /\ Len(raw) >= 3
    /\ L_close_c \in Range(raw)

(* ------------------------------------------------------------------ *)
(* C7                                                                  *)
(* ------------------------------------------------------------------ *)

\* C7: a line read in a state other than IN_CONTENT and IN_CODE that matches none
\* of the patterns of that state, the marker of a field of another state included,
\* changes neither the state, the current section, the current subsection, the
\* buffer, the output sequence nor any record.
C7_UnrecognizedSkipped ==
    [][skipped' # "no" =>
          UNCHANGED <<state, current_section, current_subsection, buffer, sections, heap>>]_vars

\* the marker of a field was just skipped in a section or a subsection that already
\* holds something
C7_Witness ==
    /\ skipped = "marker"
    /\ \/ state = STATE_IN_SECTION /\ heap[current_section].subsections # <<>>
       \/ state = STATE_IN_SUBSECTION /\ DOMAIN heap[current_subsection] # {}

(* ------------------------------------------------------------------ *)
(* C8                                                                  *)
(* ------------------------------------------------------------------ *)

\* the step that processes the closing brace of a section
ClosesSection == state = STATE_IN_SECTION /\ state' = STATE_IN_SECTIONS_ARRAY

\* C8: the output sequence changes exactly when the closing brace of a section is
\* processed in IN_SECTION, by the append of that section; no step changes the
\* record of a section already in the output sequence: its id, title, icon,
\* subsection sequence and every field of its subsections stay as they are.
C8_SectionImmutable ==
    [][/\ (sections' # sections) <=> ClosesSection
       /\ ClosesSection => sections' = Append(sections, current_section)
       /\ \A k \in 1..Len(sections) :
             /\ sections'[k] = sections[k]
             /\ SectionRecord(heap', sections[k]) = SectionRecord(heap, sections[k])]_vars

\* a section with a subsection is in the output while fields of a later subsection
\* of a later section have been assigned
C8_Witness ==
    /\ sections # <<>>
    /\ heap[sections[1]].subsections # <<>>
    /\ current_section \notin Range(sections)
    /\ state = STATE_IN_SUBSECTION
    /\ DOMAIN heap[current_subsection] # {}

(* ------------------------------------------------------------------ *)
(* C9                                                                  *)
(* ------------------------------------------------------------------ *)

\* the places a subsection occupies: <<section, position>>
Places(sub) ==
    {<<r, k>> \in SecRefs \X (1..Cardinality(SubRefs)) :
        k <= Len(heap[r].subsections) /\ heap[r].subsections[k] = sub}

\* C9: a subsection whose closing brace was processed holds exactly one place, in
\* the section that was open then; a subsection not yet closed holds none; so no
\* subsection is in two sections or twice in one.
C9_Ownership ==
    \A sub \in SubRefs :
        IF \E sec \in SecRefs : <<sub, sec>> \in closed
        THEN \E sec \in SecRefs :
                /\ closed \cap ({sub} \X SecRefs) = {<<sub, sec>>}
                /\ Cardinality(Places(sub)) = 1
                /\ \A pl \in Places(sub) : pl[1] = sec
        ELSE Places(sub) = {}

\* two sections each own a closed subsection
C9_Witness ==
    \E a, b \in closed : a[2] # b[2]

(* ------------------------------------------------------------------ *)
(* C10                                                                 *)
(* ------------------------------------------------------------------ *)

\* a record without its content when the content is empty after trimming
WithoutBlankContent(sub) ==
    IF Strip(DictGet(sub, "content", <<>>)) = <<>>
    THEN [k \in DOMAIN sub \ {"content"} |-> sub[k]]
    ELSE sub

Pruned(records) ==
    [k \in 1..Len(records) |->
        [records[k] EXCEPT !["subsections"] = [j \in 1..Len(@) |-> WithoutBlankContent(@[j])]]]

\* s is a run of consecutive members of t
IsRunOf(s, t) == \E from \in 1..(Len(t) + 1) : Slice(t, from, from + Len(s) - 1) = s

\* C10 as stated: a subsection whose content is empty after trimming is rendered
\* as one that has no content, and a subsection whose trimmed content is not empty
\* shows it, line for line, after its heading.
C10_ProseBlock_AsStated ==
    (pc = "rendered" /\ NoHeadingText) =>
        LET segs == Segments
            subs == SubRecords
        IN /\ md_content = generate_markdown(Pruned(Records))
           /\ Len(segs) = Len(subs)
           /\ \A n \in 1..Len(subs) :
                 LET text == RenderedText(DictGet(subs[n], "content", <<>>))
                 IN text # <<>> => IsRunOf(text, segs[n])

(* ------------------------------------------------------------------ *)
(* C11                                                                 *)
(* ------------------------------------------------------------------ *)

IsBlank(l) == Strip(l) = <<>>

\* the positions of the lines of a document that are not blank, in order
Inked(lines) == SelectSeq([k \in 1..Len(lines) |-> k], LAMBDA k : ~IsBlank(lines[k]))

\* the line at position b begins a block, the line at a being the one before it
\* that is not blank: b is a heading, a list heading or the first opening fence,
\* or a ends a heading block or a code block
BeginsBlock(lines, a, b) ==
    \/ IsH1(lines[b]) \/ IsH2(lines[b])
    \/ lines[b] = T_decisions \/ lines[b] = T_notes
    \/ IsFence(lines[b]) /\ lines[b] # T_fenceEnd /\ ~IsFence(lines[a])
    \/ IsIdComment(lines[a])
    \/ lines[a] = T_fenceEnd

\* no content or code field holds a blank line between two lines of text
NoBlankFieldLines ==
    LET subs == SubRecords
    IN \A k \in 1..Len(subs) :
          LET text == FieldText(subs[k]) IN \A j \in 1..Len(text) : ~IsBlank(text[j])

\* C11 as stated: in the rendered document two lines in succession that are not
\* blank are never two or more blank lines apart, and exactly one blank line
\* apart when the second begins a block (a heading with its id comment, a prose
\* block, a fenced code block, a Decisions list, a Notes list).
C11_OneBlankLine_AsStated ==
    (pc = "rendered" /\ PlainFieldText /\ NoBlankFieldLines) =>
        LET lines == OutLines
            inked == Inked(lines)
        IN \A n \in 1..(Len(inked) - 1) :
              LET a == inked[n]
                  b == inked[n + 1]
              IN /\ b - a - 1 <= 1
                 /\ BeginsBlock(lines, a, b) => b - a - 1 = 1

(* ------------------------------------------------------------------ *)
(* C12                                                                 *)
(* ------------------------------------------------------------------ *)

\* C12: in a run of the entry point the destination directory is made and the
\* destination file is opened and written only once the source has been read,
\* extracted and rendered, md_content being the rendering of the result; a run in
\* which reading fails ends with the directory and the file as they were.
C12_WriteAfterRender ==
    [][/\ dir_exists' # dir_exists => pc = "rendered"
       /\ target_file' # target_file =>
             /\ pc \in {"dirs", "opened"}
             /\ md_content = generate_markdown(Records)
       /\ files' # files => pc \notin {"start", "parse", "parsed", "read_failed"}
       /\ pc' = "read_failed" => UNCHANGED files]_vars

\* reading failed and the output file of an earlier run is still there
C12_Witness ==
    /\ pc = "read_failed"
    /\ target_file = OldText
    /\ dir_exists

(* ------------------------------------------------------------------ *)
(* C13                                                                 *)
(* ------------------------------------------------------------------ *)

\* the transitions of the specified machine
Transitions ==
    {<<STATE_ROOT, STATE_IN_SECTIONS_ARRAY>>,
     <<STATE_IN_SECTIONS_ARRAY, STATE_IN_SECTION>>,
     <<STATE_IN_SECTIONS_ARRAY, STATE_ROOT>>,
     <<STATE_IN_SECTION, STATE_IN_SUBSECTIONS_ARRAY>>,
     <<STATE_IN_SECTION, STATE_IN_SECTIONS_ARRAY>>,
     <<STATE_IN_SUBSECTIONS_ARRAY, STATE_IN_SUBSECTION>>,
     <<STATE_IN_SUBSECTIONS_ARRAY, STATE_IN_SECTION>>,
     <<STATE_IN_SUBSECTION, STATE_IN_CONTENT>>,
     <<STATE_IN_SUBSECTION, STATE_IN_CODE>>,
     <<STATE_IN_SUBSECTION, STATE_IN_NOTES>>,
     <<STATE_IN_SUBSECTION, STATE_IN_DECISIONS>>,
     <<STATE_IN_SUBSECTION, STATE_IN_SUBSECTIONS_ARRAY>>,
     <<STATE_IN_CONTENT, STATE_IN_SUBSECTION>>,
     <<STATE_IN_CODE, STATE_IN_SUBSECTION>>,
     <<STATE_IN_NOTES, STATE_IN_SUBSECTION>>,
     <<STATE_IN_DECISIONS, STATE_IN_SUBSECTION>>}

\* C13: the state changes only along the transitions of the specified machine, on
\* a line the state scans for; a section is created only on the transition from
\* IN_SECTIONS_ARRAY to IN_SECTION, a state entered only from ROOT on the start
\* marker or back from a section, so none is created before the start marker.
C13_MachineTransitions ==
    [][/\ state' # state => <<state, state'>> \in Transitions /\ skipped' = "no"
       /\ SecRefs' # SecRefs =>
             <<state, state'>> = <<STATE_IN_SECTIONS_ARRAY, STATE_IN_SECTION>>
       /\ (state = STATE_ROOT /\ state' = STATE_ROOT) => heap' = heap]_vars

\* the machine is back in ROOT after a section whose subsection went through the
\* capture of a list and of a one-line field
C13_Witness ==
    /\ state = STATE_ROOT
    /\ sections # <<>>
    /\ \E k \in 1..Len(SubRecords) :
          {"content", "notes"} \subseteq DOMAIN SubRecords[k]

(* ------------------------------------------------------------------ *)
(* C14                                                                 *)
(* ------------------------------------------------------------------ *)

\* the line, trimmed, is the closing delimiter or ends with it, the delimiter
\* followed by one separator or by none
HasClosingShape(line) ==
    EndsWith(Strip(line), BackTick) \/ EndsWith(Strip(line), BackTickComma)

\* C14 as stated: a line read in IN_CONTENT or IN_CODE closes the capture, the
\* state returning to IN_SUBSECTION, if and only if it has the closing shape;
\* otherwise capture continues.
C14_ClosingLine_AsStated ==
    (pc = "parse" /\ Len(raw) >= 2) =>
        (HasClosingShape(raw[Len(raw)]) <=> state = STATE_IN_SUBSECTION)

(* ------------------------------------------------------------------ *)
(* C15                                                                 *)
(* ------------------------------------------------------------------ *)

\* what follows the opening delimiter on the marker line of a capture
AfterMarker(first) == SplitAfter(first, FieldMarker(CapturedKey(first)))

\* C15 as stated: the extractor is in IN_CONTENT or IN_CODE only when the marker
\* line held no closing delimiter after the opening one, with the remainder of
\* that line as the first buffered fragment; a marker line that holds one leaves
\* the state IN_SUBSECTION.
C15_OneLineField_AsStated ==
    (Capturing /\ raw # <<>>) =>
        /\ ~Contains(AfterMarker(raw[1]), BackTick)
        /\ buffer # <<>> /\ buffer[1] = AfterMarker(raw[1])

(* ------------------------------------------------------------------ *)
(* C16                                                                 *)
(* ------------------------------------------------------------------ *)

\* C16 as stated: the closing line of a capture stores the buffer joined with
\* newlines into the field and clears the buffer, so the buffer is empty in every
\* state other than IN_CONTENT and IN_CODE.
C16_BufferCleared_AsStated ==
    /\ ~Capturing => buffer = <<>>
    /\ (state = STATE_IN_SUBSECTION /\ Len(raw) >= 2) =>
          /\ CapturedKey(raw[1]) \in DOMAIN heap[current_subsection]
          /\ buffer = <<>>

(* ------------------------------------------------------------------ *)
(* C17                                                                 *)
(* ------------------------------------------------------------------ *)

IsQuote(c) == c \in {SQ, DQ}

\* the text of an item line with one trailing separator and its surrounding
\* pair of quote characters removed, every inner character kept
Unquoted(line) ==
    LET t == Strip(line)
        u == IF EndsWith(t, <<",">>) THEN SubSeq(t, 1, Len(t) - 1) ELSE t
    IN IF Len(u) >= 2 /\ IsQuote(u[1]) /\ IsQuote(u[Len(u)])
       THEN SubSeq(u, 2, Len(u) - 1) ELSE u

\* the lines of the input that are list items
ItemLines ==
    {l \in OutsideLines(profile) : Strip(l) # <<>> /\ IsQuote(Strip(l)[1])}

\* C17 as stated: every item of a notes or decisions sequence is the text of an
\* item line with only its surrounding pair of quote characters and one trailing
\* separator removed, a quote character of the other kind next to the closing
\* quote included.
C17_ItemText_AsStated ==
    \A r \in SubRefs : \A key \in {"notes", "decisions"} :
        LET items == DictGet(heap[r], key, <<>>)
        IN \A k \in 1..Len(items) : items[k] \in {Unquoted(l) : l \in ItemLines}

(* ------------------------------------------------------------------ *)
(* C18                                                                 *)
(* ------------------------------------------------------------------ *)

\* the dict behind a reference exists and holds the key
Defined(ref, keys) == ref \in DOMAIN heap /\ keys \subseteq DOMAIN heap[ref]

\* C18: in every state of the loop the records the extractor dereferences are
\* defined: the current section, with its list of subsections, in IN_SECTION and
\* deeper; the current subsection in IN_SUBSECTION and deeper; the notes (resp.
\* decisions) list of the current subsection in IN_NOTES (resp. IN_DECISIONS).
C18_Total ==
    pc = "parse" =>
        /\ state >= STATE_IN_SECTION => Defined(current_section, {"subsections"})
        /\ state >= STATE_IN_SUBSECTION => Defined(current_subsection, {})
        /\ state = STATE_IN_NOTES => Defined(current_subsection, {"notes"})
        /\ state = STATE_IN_DECISIONS => Defined(current_subsection, {"decisions"})

\* a list state reached a second time in the same subsection, with an item held
C18_Witness ==
    /\ pc = "parse"
    /\ state = STATE_IN_DECISIONS
    /\ Defined(current_subsection, {"notes", "decisions"})
    /\ Len(heap[current_subsection]["notes"]) >= 1

(* ------------------------------------------------------------------ *)
(* C19                                                                 *)
(* ------------------------------------------------------------------ *)

\* the section whose closing brace has not been processed, if there is one
OpenSections == IF state >= STATE_IN_SECTION THEN {current_section} ELSE {}

\* C19: the output sequence holds, once each, exactly the sections whose closing
\* brace was processed in IN_SECTION: every section created but the one still
\* open. When the input ends in any state from IN_SECTION to IN_DECISIONS the open
\* section is not returned, nor is the open subsection in any returned section,
\* and the subsections of a returned section are those closed inside it.
C19_OpenSectionDropped ==
    /\ OpenSections \subseteq SecRefs
    /\ Range(sections) = SecRefs \ OpenSections
    /\ Len(sections) = Cardinality(Range(sections))
    /\ \A sec \in Range(sections) :
          \A sub \in Range(heap[sec].subsections) :
              /\ <<sub, sec>> \in closed
              /\ state >= STATE_IN_SUBSECTION => sub # current_subsection

\* the input ended inside the second section, in a subsection with a field
\* assigned, after one subsection of that section and the first section were closed
C19_Witness ==
    /\ pc = "parsed"
    /\ state = STATE_IN_SUBSECTION
    /\ sections # <<>>
    /\ heap[current_section].subsections # <<>>
    /\ "id" \in DOMAIN heap[current_subsection]

(* ------------------------------------------------------------------ *)
(* C20                                                                 *)
(* ------------------------------------------------------------------ *)

ListStates == {STATE_IN_SUBSECTIONS_ARRAY, STATE_IN_NOTES, STATE_IN_DECISIONS}

\* the list a list state collects into
ListOf(h, st) ==
    CASE st = STATE_IN_SUBSECTIONS_ARRAY -> h[current_section]["subsections"]
      [] st = STATE_IN_NOTES -> h[current_subsection]["notes"]
      [] st = STATE_IN_DECISIONS -> h[current_subsection]["decisions"]

\* the list state a marker line opens in state st, or st when it opens none
OpenedBy(stripped, st) ==
    IF st = STATE_IN_SECTION /\ StartsWith(stripped, K_subsections)
    THEN STATE_IN_SUBSECTIONS_ARRAY
    ELSE IF st = STATE_IN_SUBSECTION /\ StartsWith(stripped, K_notes)
    THEN STATE_IN_NOTES
    ELSE IF st = STATE_IN_SUBSECTION /\ StartsWith(stripped, K_decisions)
    THEN STATE_IN_DECISIONS
    ELSE st

\* a closing-list marker line, as the list state st tests it
IsListEnd(stripped, st) ==
    \/ stripped = <<"]">>
    \/ IF st = STATE_IN_SUBSECTIONS_ARRAY
       THEN stripped = <<"]", ",">> ELSE StartsWith(stripped, <<"]", ",">>)

\* a marker line enters its list state whatever follows the bracket, and nothing
\* of the marker line is captured
EntersListState(line) ==
    LET opened == OpenedBy(Strip(line), state)
    IN opened # state =>
          /\ state' = opened
          /\ opened # STATE_IN_SUBSECTIONS_ARRAY => ListOf(heap', opened) = <<>>
          /\ opened = STATE_IN_SUBSECTIONS_ARRAY => heap' = heap
          /\ UNCHANGED <<sections, closed, buffer, appended>>

\* a list state is left only by a closing-list line, to the enclosing state, or,
\* for the list of subsections, by the opening brace of a subsection
LeavesListState(line) ==
    (state \in ListStates /\ state' # state) =>
        \/ /\ IsListEnd(Strip(line), state)
           /\ state' = IF state = STATE_IN_SUBSECTIONS_ARRAY
                       THEN STATE_IN_SECTION ELSE STATE_IN_SUBSECTION
        \/ /\ state = STATE_IN_SUBSECTIONS_ARRAY
           /\ Strip(line) = <<"{">>
           /\ state' = STATE_IN_SUBSECTION

\* in a list state no line finalizes the enclosing subsection or section
NothingFinalized ==
    state \in ListStates =>
        /\ UNCHANGED <<sections, closed>>
        /\ \A sec \in SecRefs : heap'[sec] = heap[sec]

\* the lines of the input that open a list state in the current state
MarkerLines == {l \in Vocab(profile, state) : OpenedBy(Strip(l), state) # state}

\* C20 as stated: every list-opening marker line, 'subsections: [' included,
\* enters its list state with an empty sequence.
C20_ListOpens_AsStated ==
    [][pc = "parse" =>
          \A line \in MarkerLines :
              \/ /\ state' = OpenedBy(Strip(line), state)
                 /\ ListOf(heap', state') = <<>>
              \/ ~ProcessLine(line)]_vars

\* C20 amended: 'notes: [' and 'decisions: [' in IN_SUBSECTION always enter their
\* list state with the sequence reset to empty, and 'subsections: [' in IN_SECTION
\* always enters IN_SUBSECTIONS_ARRAY with the subsection sequence of the section
\* left as it is, also when the line holds items or the closing bracket, of which
\* nothing is captured; the list state is left only by a later closing-list line
\* (or, for the subsections list, by the opening brace of a subsection); until then
\* no line, a closing brace included, finalizes the enclosing subsection or section.
C20_ListOpens ==
    [][pc = "parse" =>
          /\ \A line \in MarkerLines : EntersListState(line) \/ ~ProcessLine(line)
          /\ (state \in ListStates /\ state' # state) =>
                \A line \in Vocab(profile, state) :
                    LeavesListState(line) \/ ~ProcessLine(line)
          /\ NothingFinalized]_vars

\* IN_NOTES entered with an empty sequence after an item had been appended to the
\* notes of the same subsection: a second marker line reset the sequence
C20_Witness ==
    /\ profile = "lists"
    /\ state = STATE_IN_NOTES
    /\ heap[current_subsection]["notes"] = <<>>
    /\ "decisions" \notin DOMAIN heap[current_subsection]
    /\ appended >= 1

====
